---- MODULE Spec2Model ----
(***************************************************************************)
(* SnowparkRunner (Code/src/snowpark_runner.py): two query templates that  *)
(* are formatted with a threshold and handed to a connector.  The model    *)
(* holds the warehouse tables the query text reads, renders the templates  *)
(* the way str.format does, and evaluates the rendered SQL relationally,   *)
(* CTE by CTE, on the event population.                                    *)
(*                                                                         *)
(* Modelling conventions                                                   *)
(*  - a timestamp is a number of seconds; DATE_TRUNC('day', t) is          *)
(*    t \div SecondsPerDay and DATEDIFF('day', a, b) the difference of the *)
(*    two day numbers (Snowflake counts calendar-day boundaries);          *)
(*  - SQL NULL is Null for numeric columns and NullStr for text columns;   *)
(*    an aggregate that can be NULL or fractional (AVG, the two ratios) is *)
(*    a record [null, num, den], the exact rational num/den;               *)
(*  - event.id, content.id and profile.id are keys of their tables, and    *)
(*    event.set_profile and event.created are not NULL;                    *)
(*  - ROW_NUMBER() breaks ties of `created` arbitrarily: every query picks *)
(*    one of the orders of the events that is sorted by created.           *)
(***************************************************************************)
EXTENDS Integers, Sequences, FiniteSets, TLC

VARIABLES
    event,      \* the warehouse's event table: a sequence of rows, event.id = index
    sp_conn,    \* SnowparkRunner.sp_conn, the connector the runner was built with
    call,       \* the latest method call: [op, first_threshold], op = "none" before any
    received,   \* the query texts the connector received during the latest call
    produced,   \* what the connector's query_snowpark produced for the latest call
    outcome,    \* what the latest call gave its caller: a returned value or a raised error
    row_order   \* the order ROW_NUMBER() gave the rows in the latest query that ran

vars == <<event, sp_conn, call, received, produced, outcome, row_order>>

----------------------------------------------------------------------------
(* Bounds of the model *)

MaxEvents == 4
MaxThreshold == 3

----------------------------------------------------------------------------
(* Values *)

Null == -1
NullStr == "NULL"
SecondsPerDay == 86400
RecentDays == 21
FirstYear == 2022

\* -1 * LN(0.05) = LN(20) = 2.9957322..., as the rational LnNum / LnDen
\* = 2.9957325...: the best one whose products with the model's times fit
\* 32-bit integers.  No quotient gap * count / sum of the model's times lies
\* between the two.
LnNum == 2106
LnDen == 703

\* the second of the two instants events are created at: 25 hours after the first
LateInstant == 25 * 60 * 60
Thresholds == 1 .. MaxThreshold
Failures == {"ConnectionError", "ProgrammingError"}
Connector == "SnowparkConnector"

\* the content table: id, type, score
content ==
    { [id |-> "web_a1", type |-> "Article", score |-> 4],
      [id |-> "web_a2", type |-> "news article", score |-> Null],
      [id |-> "web_v1", type |-> "Video", score |-> 1] }

\* the profile table: id, user_id
profile == { [id |-> "p1", user_id |-> "u1@example.org"] }

LOWER(s) ==
    CASE s = "Article" -> "article"
      [] s = "Video" -> "video"
      [] s = "https://WWW.GOOGLE.COM/search" -> "https://www.google.com/search"
      [] OTHER -> s

\* x LIKE '%article%'
LikeArticle(s) == s \in {"article", "news article"}

\* x LIKE '%www.google.com%'
LikeGoogle(s) == s \in {"https://www.google.com/search", "https://www.google.com/"}

\* The rows an event table may hold: (set_profile, created, day, referer,
\* source, content_id); day is the year of e.day.  Profile p1 reads every kind
\* of content at the first instant and two kinds at the second, p2 reads
\* unknown content at the first and an unscored article at the second, and
\* one row of p1 is older than 2022.
EventRow(p, t, y, ref, cid) ==
    [ set_profile |-> p, created |-> t, day |-> y, referer |-> ref,
      source |-> "web", content_id |-> cid ]

EventShapes ==
    { EventRow("p1", 0, FirstYear, c[1], c[2]) :
        c \in { <<"https://WWW.GOOGLE.COM/search", "a1">>,
                <<"https://news.example/", "a2">>,
                <<"https://www.google.com/", "v1">>,
                <<"https://news.example/", "zz">> } }
    \cup
    { EventRow("p1", LateInstant, FirstYear, c[1], c[2]) :
        c \in { <<"https://www.google.com/", "a1">>,
                <<"https://news.example/", "a2">> } }
    \cup
    { EventRow("p2", 0, FirstYear, "https://www.google.com/", "zz"),
      EventRow("p2", LateInstant, FirstYear, "https://www.google.com/", "a2") }
    \cup
    { EventRow("p1", 0, FirstYear - 1, "https://www.google.com/", "a1") }

RECURSIVE SetToSeq(_)
SetToSeq(S) ==
    IF S = {} THEN <<>>
    ELSE LET x == CHOOSE y \in S : TRUE IN <<x>> \o SetToSeq(S \ {x})

ShapeSeq == SetToSeq(EventShapes)

\* Nondecreasing sequences of at most n shape indices: one per multiset of shapes.
RECURSIVE ShapeIndexSeqs(_)
ShapeIndexSeqs(n) ==
    IF n = 0 THEN { <<>> }
    ELSE LET shorter == ShapeIndexSeqs(n - 1)
         IN  shorter \cup
             UNION { { Append(s, i) :
                         i \in (IF s = <<>> THEN 1 ELSE s[Len(s)]) .. Len(ShapeSeq) } :
                     s \in { t \in shorter : Len(t) = n - 1 } }

\* The event tables of at most MaxEvents rows.
EventTables ==
    { [i \in 1 .. Len(s) |-> ShapeSeq[s[i]]] : s \in ShapeIndexSeqs(MaxEvents) }

----------------------------------------------------------------------------
(* str.format: the templates and their rendering *)

Placeholder == "{0}"

Digit == <<"0", "1", "2", "3", "4", "5", "6", "7", "8", "9">>

\* str(n) for an int n >= 0, one string per character
RECURSIVE Decimal(_)
Decimal(n) ==
    IF n < 10 THEN << Digit[n + 1] >>
    ELSE Decimal(n \div 10) \o << Digit[(n % 10) + 1] >>

DigitValue(d) == (CHOOSE i \in 1 .. 10 : Digit[i] = d) - 1

\* the number a rendered integer literal denotes to the SQL engine
RECURSIVE ParseDecimal(_)
ParseDecimal(ds) ==
    IF Len(ds) = 1 THEN DigitValue(ds[1])
    ELSE 10 * ParseDecimal(SubSeq(ds, 1, Len(ds) - 1)) + DigitValue(ds[Len(ds)])

Tok(line, role, parts) == [line |-> line, role |-> role, parts |-> parts]

\* Every position of classification_query that carries a name or the
\* placeholder, in text order.  Roles: cte_def / cte_ref (a CTE's definition /
\* a FROM or JOIN of it), col_def / col_ref (days_to_N inside time_to_N / its
\* use), alias (an output column), comment, and the four integer literals.
classification_query ==
    << Tok(63, "cte_def", <<"event_aggs">>),
       Tok(71, "cte_def", <<"event_aggs_first_", Placeholder>>),
       Tok(85, "rank_filter", <<Placeholder>>),
       Tok(85, "comment", <<"first ", Placeholder, " events only">>),
       Tok(88, "cte_def", <<"time_to_", Placeholder>>),
       Tok(91, "col_def", <<"days_to_", Placeholder>>),
       Tok(93, "nth_rank", <<Placeholder>>),
       Tok(98, "alias", <<"profile_id">>),
       Tok(100, "reached_cmp", <<Placeholder>>),
       Tok(102, "alias", <<"reached_", Placeholder, "_events">>),
       Tok(106, "alias", <<"recent_last_event">>),
       Tok(107, "alias", <<"event_cycles_f", Placeholder>>),
       Tok(108, "alias", <<"distinct_articles_f", Placeholder>>),
       Tok(112, "alias", <<"percent_google_articles_f", Placeholder>>),
       Tok(116, "alias", <<"percent_article_content_f", Placeholder>>),
       Tok(117, "alias", <<"average_content_score_f", Placeholder>>),
       Tok(118, "col_ref", <<"days_to_", Placeholder>>),
       Tok(118, "alias", <<"days_to_", Placeholder, "_events">>),
       Tok(119, "alias", <<"events">>),
       Tok(120, "alias", <<"first_event_time">>),
       Tok(121, "alias", <<"event_time_", Placeholder>>),
       Tok(122, "alias", <<"distinct_days_f", Placeholder>>),
       Tok(123, "cte_ref", <<"event_aggs_first_", Placeholder>>),
       Tok(124, "cte_ref", <<"event_aggs">>),
       Tok(125, "cte_ref", <<"time_to_", Placeholder>>),
       Tok(126, "where_cmp", <<Placeholder>>) >>

clustering_positions(cycles_alias) ==
    << Tok(176, "cte_def", <<"event_aggs">>),
       Tok(193, "cte_def", <<"time_to_", Placeholder>>),
       Tok(196, "col_def", <<"days_to_", Placeholder>>),
       Tok(198, "nth_rank", <<Placeholder>>),
       Tok(203, "alias", <<"profile_id">>),
       Tok(205, "reached_cmp", <<Placeholder>>),
       Tok(207, "alias", <<"reached_", Placeholder, "_events">>),
       Tok(211, "alias", <<"recent_last_event">>),
       Tok(212, "alias", cycles_alias),
       Tok(213, "alias", <<"distinct_articles_all">>),
       Tok(217, "alias", <<"percent_google_articles_all">>),
       Tok(221, "alias", <<"percent_article_content_all">>),
       Tok(222, "alias", <<"average_content_score_all">>),
       Tok(223, "col_ref", <<"days_to_", Placeholder>>),
       Tok(223, "alias", <<"days_to_", Placeholder, "_events">>),
       Tok(224, "alias", <<"events">>),
       Tok(225, "alias", <<"first_event_time">>),
       Tok(226, "alias", <<"latest_event_time">>),
       Tok(227, "alias", <<"distinct_days">>),
       Tok(228, "cte_ref", <<"event_aggs">>),
       Tok(229, "cte_ref", <<"time_to_", Placeholder>>) >>

\* the clustering text with the classification text's alias left at line 212
clustering_query_suffixed == clustering_positions(<<"event_cycles_f", Placeholder>>)

clustering_query == clustering_positions(<<"event_cycles_all">>)

\* one replacement field: every "{0}" part becomes the characters of str(arg)
RECURSIVE Substitute(_, _)
Substitute(parts, arg) ==
    IF parts = <<>> THEN <<>>
    ELSE (IF Head(parts) = Placeholder THEN Decimal(arg) ELSE << Head(parts) >>)
         \o Substitute(Tail(parts), arg)

\* a replacement of the first placeholder of the text only
FormatFirstOnly(template, first_threshold) ==
    LET holds(j) == \E c \in DOMAIN template[j].parts : template[j].parts[c] = Placeholder
    IN  [i \in DOMAIN template |->
            IF holds(i) /\ \A j \in 1 .. (i - 1) : ~holds(j)
            THEN [template[i] EXCEPT !.parts = Substitute(@, first_threshold)]
            ELSE template[i]]

\* template.format(first_threshold)
Format(template, first_threshold) ==
    [i \in DOMAIN template |->
        [template[i] EXCEPT !.parts = Substitute(@, first_threshold)]]

RECURSIVE Join(_)
Join(parts) == IF parts = <<>> THEN "" ELSE Head(parts) \o Join(Tail(parts))

\* the rendered positions of a role, in text order
RECURSIVE OfRole(_, _)
OfRole(text, role) ==
    IF text = <<>> THEN <<>>
    ELSE (IF Head(text).role = role THEN << Head(text) >> ELSE <<>>)
         \o OfRole(Tail(text), role)

NamesOf(text, role) == { Join(text[i].parts) : i \in { j \in DOMAIN text : text[j].role = role } }

\* the output column names of a rendered query, in SELECT order
Columns(text) ==
    LET a == OfRole(text, "alias") IN [i \in DOMAIN a |-> Join(a[i].parts)]

\* the value of the integer literal at the position of a role
Literal(text, role) == ParseDecimal(OfRole(text, role)[1].parts)

LiteralRoles == {"rank_filter", "nth_rank", "reached_cmp", "where_cmp"}

\* every CTE and column the text refers to is defined in it
Resolves(text) ==
    /\ NamesOf(text, "cte_ref") \subseteq NamesOf(text, "cte_def")
    /\ NamesOf(text, "col_ref") \subseteq NamesOf(text, "col_def")

\* The engine compiles the text only when its names resolve and each integer
\* literal is a digit string.
Compiles(text) ==
    /\ Resolves(text)
    /\ \A j \in DOMAIN text :
          text[j].role \in LiteralRoles =>
              \A c \in DOMAIN text[j].parts :
                  \E d \in DOMAIN Digit : Digit[d] = text[j].parts[c]

----------------------------------------------------------------------------
(* The SQL of the two queries, CTE by CTE, on an event table ev *)

\* WHERE DATE_TRUNC('year', e.day) >= DATE('2022-01-01')
Filtered(ev) == { i \in DOMAIN ev : ev[i].day >= FirstYear }

\* ORDER BY e.created within one partition: the orders of the event ids S that
\* are sorted by created, ties in any order.  Rows that agree in every column
\* but the id are taken in id order: swapping two of them renames the ids only.
RECURSIVE CreatedOrders(_, _)
CreatedOrders(ev, S) ==
    IF S = {} THEN { <<>> }
    ELSE LET first == { i \in S : /\ \A j \in S : ev[i].created <= ev[j].created
                                  /\ \A j \in S : ev[j] = ev[i] => i <= j }
         IN  UNION { { <<i>> \o t : t \in CreatedOrders(ev, S \ {i}) } : i \in first }

\* ROW_NUMBER() OVER (PARTITION BY e.set_profile ORDER BY e.created): one order
\* per partition, written one partition after the other.
RECURSIVE PartitionOrders(_, _)
PartitionOrders(ev, ps) ==
    IF ps = {} THEN { <<>> }
    ELSE LET p == CHOOSE x \in ps : TRUE
         IN  { o \o t :
                 o \in CreatedOrders(ev, { i \in Filtered(ev) : ev[i].set_profile = p }),
                 t \in PartitionOrders(ev, ps \ {p}) }

RowOrders(ev) == PartitionOrders(ev, { ev[i].set_profile : i \in Filtered(ev) })

\* LEFT JOIN content c ON CONCAT(e.source, '_', e.content_id) = c.id
JoinContent(e) ==
    LET m == { c \in content : c.id = e.source \o "_" \o e.content_id }
    IN  IF m = {} THEN [id |-> NullStr, type |-> NullStr, score |-> Null]
        ELSE CHOOSE c \in m : TRUE

\* LEFT JOIN profile p ON e.set_profile = p.id
JoinProfile(e) ==
    LET m == { p \in profile : p.id = e.set_profile }
    IN  IF m = {} THEN [id |-> NullStr, user_id |-> NullStr] ELSE CHOOSE p \in m : TRUE

event_expanded(ev, ord) ==
    { LET e == ev[ord[i]]
          c == JoinContent(e)
      IN  [ event_id |-> ord[i],
            profile_id |-> e.set_profile,
            referer |-> LOWER(e.referer),
            created |-> e.created,
            event_rank |->
                Cardinality({ j \in 1 .. i : ev[ord[j]].set_profile = e.set_profile }),
            email |-> JoinProfile(e).user_id,
            content_type |-> LOWER(c.type),
            content_id |-> c.id,
            content_score |-> c.score ] :
      i \in DOMAIN ord }

\* LEAD(created) OVER (PARTITION BY profile_id ORDER BY event_rank)
LeadCreated(rows, r) ==
    LET nxt == { q \in rows : q.profile_id = r.profile_id /\ q.event_rank = r.event_rank + 1 }
    IN  IF nxt = {} THEN Null ELSE (CHOOSE q \in nxt : TRUE).created

events_with_diff(rows) ==
    { r @@ [ seconds_to_next_event |->
               LET l == LeadCreated(rows, r)
               IN  IF l = Null THEN Null ELSE l - r.created ] :
      r \in rows }

RECURSIVE SumOf(_, _)
SumOf(rows, col) ==
    IF rows = {} THEN 0
    ELSE LET r == CHOOSE x \in rows : TRUE IN r[col] + SumOf(rows \ {r}, col)

\* AVG(col): the exact mean of the non-NULL values, NULL when there is none
AVG(rows, col) ==
    LET vals == { r \in rows : r[col] # Null }
    IN  IF vals = {} THEN [null |-> TRUE, num |-> 0, den |-> 1]
        ELSE [null |-> FALSE, num |-> SumOf(vals, col), den |-> Cardinality(vals)]

\* idle_hours: mean_time; avg_idle_hours = (-1 * mean_time * LN(0.05)) / (60 * 60)
idle_hours(rows) == AVG(rows, "seconds_to_next_event")

\* (seconds_to_next_event / (60*60)) >= i.avg_idle_hours, NULL counting as not true:
\* s / 3600 >= (num / den) * (LnNum / LnDen) / 3600, the two divisions by
\* 3600 cancelling
OverIdle(s, i) ==
    /\ s # Null
    /\ ~i.null
    /\ s * i.den * LnDen >= i.num * LnNum

DayOf(t) == t \div SecondsPerDay

\* content_type LIKE '%article%'
IsArticle(r) == LikeArticle(r.content_type)

\* the CASE without its content_type condition
IsFromGoogle(r) == LikeGoogle(r.referer)

\* content_type LIKE '%article%' AND referer like '%www.google.com%'
IsGoogleArticle(r) == LikeArticle(r.content_type) /\ LikeGoogle(r.referer)

\* COUNT(DISTINCT CASE WHEN ... THEN col END) over the rows that meet the CASE
CountDistinct(rows, col) == Cardinality({ r[col] : r \in rows } \ {NullStr})

\* the aggregate expressions shared by event_aggs_first_N and the clustering
\* query's event_aggs, over the rows g of one profile
FeatureAggs(g, i) ==
    [ cycles |->
        Cardinality({ r.event_id : r \in { x \in g : OverIdle(x.seconds_to_next_event, i) } }) + 1,
      article_events |-> Cardinality({ r.event_id : r \in { x \in g : IsArticle(x) } }),
      distinct_content |-> CountDistinct(g, "content_id"),
      distinct_articles |-> CountDistinct({ x \in g : IsArticle(x) }, "content_id"),
      distinct_articles_from_google |->
          CountDistinct({ x \in g : IsGoogleArticle(x) }, "content_id"),
      average_content_score |-> AVG(g, "content_score"),
      latest_event_time |-> CHOOSE t \in { r.created : r \in g } : \A r \in g : r.created <= t,
      first_event_time |-> CHOOSE t \in { r.created : r \in g } : \A r \in g : t <= r.created,
      distinct_days |-> Cardinality({ DayOf(r.created) : r \in g }) ]

GroupOf(rows, p) == { r \in rows : r.profile_id = p }
ProfileIds(rows) == { r.profile_id : r \in rows }

\* classification query: event_aggs
event_aggs(rows) ==
    { LET g == GroupOf(rows, p)
      IN  [ profile_id |-> p,
            events |-> Cardinality({ r.event_id : r \in g }),
            latest_event |-> CHOOSE t \in { r.created : r \in g } : \A r \in g : r.created <= t ] :
      p \in ProfileIds(rows) }

\* WHERE e.event_rank <= k
RankFilter(r, k) == r.event_rank <= k

\* classification query: event_aggs_first_N
event_aggs_first(rows, i, k) ==
    LET firsts == { r \in rows : RankFilter(r, k) }
    IN  { [profile_id |-> p] @@ FeatureAggs(GroupOf(firsts, p), i) : p \in ProfileIds(firsts) }

\* the clustering query's event_aggs with the classification query's rank
\* filter left in, for the first event
event_aggs_all_windowed(rows, i) ==
    { LET g == { r \in GroupOf(rows, p) : r.event_rank <= 1 }
      IN  [profile_id |-> p, events |-> Cardinality({ r.event_id : r \in g })]
          @@ FeatureAggs(g, i) :
      p \in ProfileIds(rows) }

\* clustering query: event_aggs
event_aggs_all(rows, i) ==
    { LET g == GroupOf(rows, p)
      IN  [profile_id |-> p, events |-> Cardinality({ r.event_id : r \in g })]
          @@ FeatureAggs(g, i) :
      p \in ProfileIds(rows) }

\* time_to_N without its WHERE
FirstRankDropped(a) == TRUE

\* WHERE a.event_rank = 1
FirstRank(a) == a.event_rank = 1

\* time_to_N: a LEFT JOIN b ON a.profile_id = b.profile_id AND b.event_rank = k
\* WHERE a.event_rank = 1.  rowid tells the rows of the join apart (a result is
\* a multiset of rows): the pair of event ids a row was joined from.
time_to(rows, k) ==
    UNION { LET bs == { b \in rows : b.profile_id = a.profile_id /\ b.event_rank = k }
            IN  IF bs = {}
                THEN { [ profile_id |-> a.profile_id, days_to |-> Null,
                         rowid |-> <<a.event_id, 0>> ] }
                ELSE { [ profile_id |-> a.profile_id,
                         days_to |-> DayOf(b.created) - DayOf(a.created),
                         rowid |-> <<a.event_id, b.event_id>> ] : b \in bs } :
            a \in { r \in rows : FirstRank(r) } }

\* CASE WHEN den > 0 THEN num / den ELSE 0 END
Ratio(num, den) ==
    IF den > 0 THEN [null |-> FALSE, num |-> num, den |-> den]
    ELSE [null |-> FALSE, num |-> 0, den |-> 1]

\* the column without COALESCE
CoalesceDropped(x) == x

\* COALESCE(x, 0)
COALESCE(x) == IF x.null THEN [null |-> FALSE, num |-> 0, den |-> 1] ELSE x

\* CASE WHEN DATEDIFF('day', t, CURRENT_TIMESTAMP()) <= 21 THEN 1 ELSE 0 END
Recent(t, now) == IF DayOf(now) - DayOf(t) <= RecentDays THEN 1 ELSE 0

\* the columns the two SELECTs have in common, from a feature row ea
FeatureColumns(ea) ==
    [ cycles |-> ea.cycles,
      distinct_articles |-> ea.distinct_articles,
      percent_google_articles |->
          Ratio(ea.distinct_articles_from_google, ea.distinct_articles),
      percent_article_content |-> Ratio(ea.distinct_articles, ea.distinct_content),
      average_content_score |-> COALESCE(ea.average_content_score),
      first_event_time |-> ea.first_event_time,
      latest_event_time |-> ea.latest_event_time,
      distinct_days |-> ea.distinct_days ]

\* the label with > for >=
ReachedCaseStrict(events, k) == IF events > k THEN 1 ELSE 0

\* CASE WHEN events >= k THEN 1 ELSE 0 END AS reached_N_events
ReachedCase(events, k) == IF events >= k THEN 1 ELSE 0

\* the query without its trailing filter
WhereEventsDropped(events, k) == TRUE

\* WHERE e.events >= k
WhereEvents(events, k) == events >= k

\* LEFT JOIN time_to_N ttf ON ea.profile_id = ttf.profile_id
LeftJoinTimeTo(ttf, p) ==
    LET m == { x \in ttf : x.profile_id = p }
    IN  IF m = {} THEN { [profile_id |-> p, days_to |-> Null, rowid |-> <<0, 0>>] } ELSE m

\* The final SELECT of the classification query.  text is the rendered query:
\* each integer literal is read at its own position.
classification_select(ev, ord, text, now) ==
    LET ee   == event_expanded(ev, ord)
        ewd  == events_with_diff(ee)
        eaf  == event_aggs_first(ewd, idle_hours(ewd), Literal(text, "rank_filter"))
        eas  == event_aggs(ewd)
        ttf  == time_to(ee, Literal(text, "nth_rank"))
        kr   == Literal(text, "reached_cmp")
        kw   == Literal(text, "where_cmp")
    IN  UNION { UNION { { [ profile_id |-> ea.profile_id,
                            reached |-> ReachedCase(e.events, kr),
                            recent_last_event |-> Recent(e.latest_event, now),
                            days_to |-> t.days_to,
                            rowid |-> t.rowid,
                            events |-> e.events ] @@ FeatureColumns(ea) :
                          t \in LeftJoinTimeTo(ttf, ea.profile_id) } :
                        e \in { x \in eas : /\ x.profile_id = ea.profile_id
                                            /\ WhereEvents(x.events, kw) } } :
                ea \in eaf }

\* The final SELECT of the clustering query.
clustering_select(ev, ord, text, now) ==
    LET ee   == event_expanded(ev, ord)
        ewd  == events_with_diff(ee)
        eas  == event_aggs_all(ewd, idle_hours(ewd))
        ttf  == time_to(ee, Literal(text, "nth_rank"))
        kr   == Literal(text, "reached_cmp")
    IN  UNION { { [ profile_id |-> ea.profile_id,
                    reached |-> ReachedCase(ea.events, kr),
                    recent_last_event |-> Recent(ea.latest_event_time, now),
                    days_to |-> t.days_to,
                    rowid |-> t.rowid,
                    events |-> ea.events ] @@ FeatureColumns(ea) :
                  t \in LeftJoinTimeTo(ttf, ea.profile_id) } :
                ea \in eas }

----------------------------------------------------------------------------
(* The connector and the runner *)

\* CURRENT_TIMESTAMP() of a query: 22 days after the first instant
Clock == { 22 * SecondsPerDay + 50000 }

NoResult == [kind |-> "none", columns |-> <<>>, rows |-> {}, error |-> ""]
DataFrame(columns, rows) == [kind |-> "df", columns |-> columns, rows |-> rows, error |-> ""]
Failure(e) == [kind |-> "error", columns |-> <<>>, rows |-> {}, error |-> e]

\* sp_conn.query_snowpark(text): the connector fails with fault, or the engine
\* rejects a text that does not compile, or runs it on the event table.
query_snowpark(op, text, ord, now, fault) ==
    IF fault # "none" THEN Failure(fault)
    ELSE IF ~Compiles(text) THEN Failure("ProgrammingError")
    ELSE IF op = "classification"
         THEN DataFrame(Columns(text), classification_select(event, ord, text, now))
         ELSE DataFrame(Columns(text), clustering_select(event, ord, text, now))

\* a runner that invokes the connector again when the invocation fails
DelegateRetry(op, template, first_threshold, ord, now, fault) ==
    LET text == Format(template, first_threshold)
        r == query_snowpark(op, text, ord, now, fault)
        again == query_snowpark(op, text, ord, now, "none")
    IN  IF r.kind = "error"
        THEN [ received |-> << text, text >>, produced |-> again,
               outcome |-> [kind |-> (IF again.kind = "error" THEN "raised" ELSE "returned"),
                            value |-> again] ]
        ELSE [ received |-> << text >>, produced |-> r,
               outcome |-> [kind |-> "returned", value |-> r] ]

\* query = """...""".format(first_threshold)
\* df = self.sp_conn.query_snowpark(query); return df
\* One invocation; its value is returned, its exception propagates.
Delegate(op, template, first_threshold, ord, now, fault) ==
    LET text == Format(template, first_threshold)
        r == query_snowpark(op, text, ord, now, fault)
    IN  [ received |-> << text >>,
          produced |-> r,
          outcome  |-> IF r.kind = "error"
                       THEN [kind |-> "raised", value |-> r]
                       ELSE [kind |-> "returned", value |-> r] ]

NoCall == [op |-> "none", first_threshold |-> 0]
NoOutcome == [kind |-> "none", value |-> NoResult]

Idle == call = NoCall

Init ==
    /\ event \in EventTables
    /\ sp_conn = Connector
    /\ call = NoCall
    /\ received = <<>>
    /\ produced = NoResult
    /\ outcome = NoOutcome
    /\ row_order = <<>>

\* One call of a method, from its caller's call to its return or raise.  The
\* connector's fault, the engine's clock and its row order are the call's
\* environment.
Run(op, template, first_threshold) ==
    /\ Idle
    /\ \E fault \in Failures \cup {"none"} :
       \E ord \in (IF fault = "none" THEN RowOrders(event) ELSE { <<>> }) :
       \E now \in Clock :
          LET d == Delegate(op, template, first_threshold, ord, now, fault)
          IN  /\ call' = [op |-> op, first_threshold |-> first_threshold]
              /\ received' = d.received
              /\ produced' = d.produced
              /\ outcome' = d.outcome
              /\ row_order' = ord
              /\ UNCHANGED <<event, sp_conn>>

query_classification_dataset(first_threshold) ==
    Run("classification", classification_query, first_threshold)

query_clustering_dataset(first_threshold) ==
    Run("clustering", clustering_query, first_threshold)

\* The (single-threaded, synchronous) caller takes what the call gave it and
\* goes on; the runner keeps nothing of the call but sp_conn.
Resume ==
    /\ ~Idle
    /\ call' = NoCall
    /\ received' = <<>>
    /\ produced' = NoResult
    /\ outcome' = NoOutcome
    /\ row_order' = <<>>
    /\ UNCHANGED <<event, sp_conn>>

Next ==
    \/ \E n \in Thresholds : query_classification_dataset(n)
    \/ \E n \in Thresholds : query_clustering_dataset(n)
    \/ Resume

Spec == Init /\ [][Next]_vars

----------------------------------------------------------------------------
(* What the claims speak of, read off the event table itself *)

Returned(op) == outcome.kind = "returned" /\ call.op = op
Rows == outcome.value.rows
N == call.first_threshold

ProfilesOfTable == { event[i].set_profile : i \in DOMAIN event }

\* the events of profile p from 2022 on
EventsOf(p) == { i \in DOMAIN event : event[i].set_profile = p /\ event[i].day >= FirstYear }
TotalEvents(p) == Cardinality(EventsOf(p))

\* the rank ROW_NUMBER() gave event i in the latest query
RankOf(i) ==
    LET pos(j) == CHOOSE k \in DOMAIN row_order : row_order[k] = j
    IN  Cardinality({ j \in EventsOf(event[i].set_profile) : pos(j) <= pos(i) })

\* the events a row of the latest call aggregates: the first N of the profile
\* for the classification dataset, all of them for the clustering dataset
Aggregated(p) ==
    IF call.op = "classification" THEN { i \in EventsOf(p) : RankOf(i) <= N }
    ELSE EventsOf(p)

ContentOf(i) == { c \in content : c.id = event[i].source \o "_" \o event[i].content_id }
ScoresOf(S) == UNION { { [id |-> i, score |-> c.score] : c \in { x \in ContentOf(i) : x.score # Null } } : i \in S }

RowsOf(p) == { r \in Rows : r.profile_id = p }

----------------------------------------------------------------------------
(* C1 *)

\* C1: every row of query_classification_dataset(N) has events >= N, events
\* being the profile's number of events from 2022 on.
C1_EventsAtLeastThreshold ==
    Returned("classification") =>
        \A r \in Rows : r.events >= N /\ r.events = TotalEvents(r.profile_id)

\* a classification result with a row, while another profile with events but
\* fewer than N of them has none
C1_Witness ==
    /\ Returned("classification")
    /\ Rows # {}
    /\ \E p \in ProfilesOfTable : TotalEvents(p) \in 1 .. (N - 1) /\ RowsOf(p) = {}

----------------------------------------------------------------------------
(* C2 *)

\* C2: in every row of either dataset reached_N_events is 1 if the profile's
\* total number of events is >= N and 0 otherwise; every classification row
\* has 1.
C2_ReachedIffTotal ==
    (Returned("classification") \/ Returned("clustering")) =>
        \A r \in Rows :
            /\ r.reached = (IF TotalEvents(r.profile_id) >= N THEN 1 ELSE 0)
            /\ call.op = "classification" => r.reached = 1

\* a clustering result with a row of value 0 and a row of value 1
C2_Witness ==
    /\ Returned("clustering")
    /\ \E r \in Rows : r.reached = 0 /\ TotalEvents(r.profile_id) < N
    /\ \E r \in Rows : r.reached = 1

----------------------------------------------------------------------------
(* C3 *)

InUnitInterval(q) == ~q.null /\ q.den > 0 /\ 0 <= q.num /\ q.num <= q.den
IsZero(q) == ~q.null /\ q.num = 0 /\ q.den > 0

ArticlesOf(S) ==
    { c.id : c \in UNION { { x \in ContentOf(i) : LikeArticle(LOWER(x.type)) } : i \in S } }
ContentsOf(S) == { c.id : c \in UNION { ContentOf(i) : i \in S } }

\* C3: in every row of either dataset the two ratios lie in [0, 1], and each
\* is 0 when its denominator (the distinct articles, the distinct content of
\* the events aggregated) is 0.
C3_RatiosInUnitInterval ==
    (Returned("classification") \/ Returned("clustering")) =>
        \A r \in Rows :
            /\ InUnitInterval(r.percent_google_articles)
            /\ InUnitInterval(r.percent_article_content)
            /\ ArticlesOf(Aggregated(r.profile_id)) = {} => IsZero(r.percent_google_articles)
            /\ ContentsOf(Aggregated(r.profile_id)) = {} => IsZero(r.percent_article_content)

\* a result with a row whose events read an article, not from the referrer,
\* and a non-article from it, and a row whose events matched no content
C3_Witness ==
    /\ Returned("clustering")
    /\ \E r \in Rows :
          /\ r.percent_google_articles.num = 0
          /\ r.distinct_articles > 0
          /\ r.percent_article_content.num < r.percent_article_content.den
          /\ \E i \in Aggregated(r.profile_id) :
                LikeGoogle(LOWER(event[i].referer)) /\ event[i].content_id = "v1"
    /\ \E r \in Rows : ContentsOf(Aggregated(r.profile_id)) = {}

----------------------------------------------------------------------------
(* C4 *)

RECURSIVE ScoreSum(_)
ScoreSum(S) ==
    IF S = {} THEN 0 ELSE LET x == CHOOSE y \in S : TRUE IN x.score + ScoreSum(S \ {x})

\* C4: in every row of either dataset the average content score is not null;
\* it is the mean of the non-null scores of the content the aggregated events
\* matched, and 0 when there is no such score.
C4_AverageScoreDefined ==
    (Returned("classification") \/ Returned("clustering")) =>
        \A r \in Rows :
            LET scored == ScoresOf(Aggregated(r.profile_id))
                avg == r.average_content_score
            IN  /\ ~avg.null
                /\ avg.den > 0
                /\ avg.num * Cardinality(scored) = ScoreSum(scored) * avg.den
                /\ scored = {} => avg.num = 0

\* a result with a row of a fractional mean and a row whose events matched
\* only content without a score
C4_Witness ==
    /\ Returned("clustering")
    /\ \E r \in Rows : r.average_content_score.den = 2 /\ r.average_content_score.num = 5
    /\ \E r \in Rows :
          /\ ScoresOf(Aggregated(r.profile_id)) = {}
          /\ ContentsOf(Aggregated(r.profile_id)) # {}
          /\ IsZero(r.average_content_score)

----------------------------------------------------------------------------
(* C5 *)

TemplateOf(op) == IF op = "classification" THEN classification_query ELSE clustering_query

\* the text a template position must render to: its parts, with the decimal
\* numeral of n in place of the placeholder
RECURSIVE Rendering(_, _)
Rendering(parts, n) ==
    IF parts = <<>> THEN ""
    ELSE (IF Head(parts) = Placeholder THEN ToString(n) ELSE Head(parts))
         \o Rendering(Tail(parts), n)

\* C5: the text either method hands to the connector has the decimal numeral
\* of N at every template position, no placeholder left, and every CTE and
\* column it refers to is one it defines.
C5_ThresholdAtEveryPosition ==
    ~Idle =>
        LET text == received[1]
            template == TemplateOf(call.op)
        IN  /\ DOMAIN text = DOMAIN template
            /\ \A j \in DOMAIN text :
                  /\ \A c \in DOMAIN text[j].parts : text[j].parts[c] # Placeholder
                  /\ Join(text[j].parts) = Rendering(template[j].parts, N)
                  /\ text[j].role \in LiteralRoles => ParseDecimal(text[j].parts) = N
            /\ Resolves(text)
            /\ ("time_to_" \o ToString(N)) \in NamesOf(text, "cte_ref")
            /\ call.op = "classification" =>
                  ("event_aggs_first_" \o ToString(N)) \in NamesOf(text, "cte_ref")

\* the classification text of the largest threshold, sent and run
C5_Witness ==
    /\ Returned("classification")
    /\ N = MaxThreshold
    /\ Len(received) = 1
    /\ ("event_aggs_first_" \o ToString(MaxThreshold)) \in NamesOf(received[1], "cte_def")

----------------------------------------------------------------------------
(* C6 *)

ColumnSet(text) == { Columns(text)[j] : j \in DOMAIN Columns(text) }
ReturnedColumns == { outcome.value.columns[j] : j \in DOMAIN outcome.value.columns }

\* the feature columns of the classification dataset for threshold n
ClassificationFeatures(n) ==
    { "event_cycles_f" \o ToString(n), "distinct_articles_f" \o ToString(n),
      "percent_google_articles_f" \o ToString(n), "percent_article_content_f" \o ToString(n),
      "average_content_score_f" \o ToString(n), "distinct_days_f" \o ToString(n),
      "event_time_" \o ToString(n) }

\* the label and timing columns both datasets name after the threshold
ThresholdNamed(n) ==
    { "reached_" \o ToString(n) \o "_events", "days_to_" \o ToString(n) \o "_events" }

\* C6 as stated: the clustering dataset has the same column names for every
\* threshold, and the classification feature columns carry the threshold.
C6_ClusteringColumnsIndependent ==
    /\ Returned("clustering") =>
          \A m \in Thresholds : ColumnSet(Format(clustering_query, m)) = ReturnedColumns
    /\ Returned("classification") => ClassificationFeatures(N) \subseteq ReturnedColumns

\* C6, amended: the clustering dataset's columns other than reached_N_events
\* and days_to_N_events are the same for every threshold, those two carry the
\* threshold in both datasets, and the classification feature columns carry
\* the threshold.
C6_ColumnsButLabelAndTiming ==
    /\ Returned("clustering") =>
          /\ ThresholdNamed(N) \subseteq ReturnedColumns
          /\ \A m \in Thresholds :
                ColumnSet(Format(clustering_query, m)) \ ThresholdNamed(m)
                    = ReturnedColumns \ ThresholdNamed(N)
    /\ Returned("classification") =>
          /\ ThresholdNamed(N) \subseteq ReturnedColumns
          /\ ClassificationFeatures(N) \subseteq ReturnedColumns
          /\ \A m \in Thresholds \ {N} : ClassificationFeatures(m) \cap ReturnedColumns = {}

\* a clustering result for a threshold other than 1, whose label column is
\* not the one of threshold 1
C6_Witness ==
    /\ Returned("clustering")
    /\ N = 2
    /\ "reached_2_events" \in ReturnedColumns
    /\ "reached_1_events" \notin ReturnedColumns
    /\ "event_cycles_all" \in ReturnedColumns

----------------------------------------------------------------------------
(* C7 *)

Max(S) == CHOOSE t \in S : \A u \in S : u <= t
Min(S) == CHOOSE t \in S : \A u \in S : t <= u
CreatedOf(S) == { event[i].created : i \in S }

RECURSIVE Total(_, _)
Total(f, S) == IF S = {} THEN 0 ELSE LET x == CHOOSE y \in S : TRUE IN f[x] + Total(f, S \ {x})

ActiveProfiles == { p \in ProfilesOfTable : EventsOf(p) # {} }

\* the gaps between consecutive events sum to last - first in every profile
GapSum == Total([p \in ActiveProfiles |-> Max(CreatedOf(EventsOf(p))) - Min(CreatedOf(EventsOf(p)))],
                ActiveProfiles)
GapCount == Total([p \in ActiveProfiles |-> TotalEvents(p) - 1], ActiveProfiles)

\* gap >= -mean * LN(0.05), the mean taken over every gap of the table
OverCutoff(gap) == GapCount > 0 /\ gap * GapCount * LnDen >= GapSum * LnNum

\* event j follows event i in the profile's history (created, then id)
Follows(i, j) ==
    \/ event[i].created < event[j].created
    \/ event[i].created = event[j].created /\ i < j

\* the gaps of the whole history of p that reach the cutoff
LongGaps(p) ==
    { i \in EventsOf(p) :
        \E j \in EventsOf(p) :
            /\ Follows(i, j)
            /\ \A k \in EventsOf(p) : Follows(i, k) => (k = j \/ Follows(j, k))
            /\ OverCutoff(event[j].created - event[i].created) }

\* a clustering row holds the aggregates of the profile's whole history
WholeHistory(c) ==
    LET S == EventsOf(c.profile_id)
    IN  /\ c.events = Cardinality(S)
        /\ c.cycles = Cardinality(LongGaps(c.profile_id)) + 1
        /\ c.distinct_articles = Cardinality(ArticlesOf(S))
        /\ c.distinct_days = Cardinality({ DayOf(t) : t \in CreatedOf(S) })
        /\ c.latest_event_time = Max(CreatedOf(S))
        /\ c.first_event_time = Min(CreatedOf(S))

\* the events of p, among those the latest call aggregated, whose gap to the
\* next event of p's whole history reaches the cutoff of the whole table
LongGapsAggregated(p) ==
    { i \in Aggregated(p) :
        \E j \in EventsOf(p) :
            /\ RankOf(j) = RankOf(i) + 1
            /\ OverCutoff(event[j].created - event[i].created) }

\* what query_clustering_dataset(N) returns on the table of the latest call
ClusteringRows ==
    clustering_select(event, row_order, Format(clustering_query, N), CHOOSE t \in Clock : TRUE)

Dominates(c, r) ==
    /\ c.profile_id = r.profile_id
    /\ c.events >= r.events
    /\ c.cycles >= r.cycles
    /\ c.distinct_articles >= r.distinct_articles
    /\ c.distinct_days >= r.distinct_days
    /\ c.latest_event_time >= r.latest_event_time

\* C7: on the same table and threshold every profile with a classification
\* row has a clustering row; the clustering row's aggregates are those of the
\* profile's whole history and each is >= the classification row's; both
\* queries count cycles against the one cutoff of the whole table.
C7_ClusteringIsAllEventsView ==
    /\ Returned("clustering") => \A c \in Rows : WholeHistory(c)
    /\ Returned("classification") =>
          \A r \in Rows :
              /\ r.cycles = Cardinality(LongGapsAggregated(r.profile_id)) + 1
              /\ \E c \in ClusteringRows : WholeHistory(c) /\ Dominates(c, r)

\* a classification row that the clustering row exceeds in cycles, articles,
\* days and latest event time
C7_Witness ==
    /\ Returned("classification")
    /\ \E r \in Rows : \E c \in ClusteringRows :
          /\ c.profile_id = r.profile_id
          /\ c.cycles > r.cycles
          /\ c.distinct_articles > r.distinct_articles
          /\ c.distinct_days > r.distinct_days
          /\ c.latest_event_time > r.latest_event_time

----------------------------------------------------------------------------
(* C8 *)

\* the f{N} features of a classification row / of a row of event_aggs_first_N
FirstNFeatures(r) ==
    << r.cycles, r.distinct_articles, r.percent_google_articles, r.percent_article_content,
       r.average_content_score, r.distinct_days, r.latest_event_time >>

\* the features of profile p when its events of rank > N are removed from the
\* table and the cutoff is kept
FeaturesOfFirstN(p) ==
    LET ee == event_expanded(event, row_order)
        kept == { x \in ee : x.profile_id # p \/ x.event_rank <= N }
        eaf == event_aggs_first(events_with_diff(kept), idle_hours(events_with_diff(ee)), N)
    IN  FirstNFeatures(FeatureColumns(CHOOSE ea \in eaf : ea.profile_id = p))

\* C8: the f{N} features of a classification row are determined by the
\* profile's N earliest events and the cutoff: with the cutoff kept, removing
\* the profile's events of rank > N changes none of them.
C8_FeaturesOfFirstNOnly ==
    Returned("classification") =>
        \A r \in Rows : FirstNFeatures(r) = FeaturesOfFirstN(r.profile_id)

----------------------------------------------------------------------------
(* C9 *)

\* C9: the classification dataset has exactly one row for every profile with
\* at least N events and none for any other; the clustering dataset has
\* exactly one row for every profile with an event.
C9_OneRowPerQualifyingProfile ==
    (Returned("classification") \/ Returned("clustering")) =>
        /\ \A r \in Rows : r.profile_id \in ProfilesOfTable
        /\ \A p \in ProfilesOfTable :
              Cardinality(RowsOf(p)) =
                  (IF call.op = "classification"
                   THEN (IF TotalEvents(p) >= N THEN 1 ELSE 0)
                   ELSE (IF TotalEvents(p) >= 1 THEN 1 ELSE 0))

\* a classification result for N >= 2 with a row for each of two profiles
C9_Witness ==
    /\ Returned("classification")
    /\ N >= 2
    /\ Cardinality(Rows) = 2
    /\ Cardinality({ r.profile_id : r \in Rows }) = 2

----------------------------------------------------------------------------
(* C10 *)

\* C10: a call invokes query_snowpark once; what the invocation produced is
\* what the caller gets, returned when it is a result and raised when it is a
\* failure; sp_conn is never changed.
C10_OneInvocationPropagated ==
    /\ sp_conn = Connector
    /\ ~Idle =>
          /\ Len(received) = 1
          /\ produced.kind \in {"df", "error"}
          /\ outcome.value = produced
          /\ outcome.kind = (IF produced.kind = "df" THEN "returned" ELSE "raised")

\* a call whose one invocation failed, the failure reaching the caller
C10_Witness ==
    /\ call.op = "clustering"
    /\ Len(received) = 1
    /\ produced.error = "ConnectionError"
    /\ outcome.kind = "raised"
    /\ outcome.value.error = "ConnectionError"

====
